---------------------------- MODULE Spec2Model ----------------------------
(***************************************************************************)
(* web3scout: the chain-reorganization monitor                             *)
(* (python/prod/data/reorganization_monitor.py), its resolution type       *)
(* (python/prod/data/chain_reorganization_resolution.py) and the JSON-RPC  *)
(* header source (python/prod/event/tools/rpc_reorganization_monitor.py).  *)
(*                                                                         *)
(* Every public method of ReorganizationMonitor is one action; the method  *)
(* bodies are operators that return the new field values together with the *)
(* way the call ended ("ok" or the name of the Python exception).  A call  *)
(* that has ended leaves its record in `ret` until the caller drops it     *)
(* (Discard); calls on one monitor never overlap.  The header source is    *)
(* not part of the monitor: each call draws what the node answers (its     *)
(* tip, and for every requested block a header with any hash, or nothing)  *)
(* nondeterministically.                                                   *)
(*                                                                         *)
(* The event reader (python/prod/event/process/read_events.py) is the      *)
(* generator ReadEvents.apply(): one step per eth_getLogs request and per  *)
(* log, over a monitor that it only reads (SpecScan), and prepare_filter() *)
(* (SpecFilter).  SpecCancel runs truncate() inside update_chain() one     *)
(* statement at a time, with an interruption that may arrive in between.   *)
(***************************************************************************)
EXTENDS Integers, Sequences, FiniteSets, TLC

VARIABLES
    block_map,        \* ReorganizationMonitor.block_map: block number -> BlockHeader
    last_block_read,  \* ReorganizationMonitor.last_block_read
    pc,               \* "idle"; "update" while update_chain() runs; "returned" when a call has ended
    tries_left,       \* update_chain(): local tries_left
    max_purge,        \* update_chain(): local max_purge
    reorg_detected,   \* update_chain(): local reorg_detected
    passes,           \* update_chain(): what each detection pass so far fetched and how it ended
    ret,              \* the call that has ended or is running: [op, arg, outcome, value]
    truncating,       \* truncate() inside update_chain(), when it runs key by key: its locals
    scan              \* ReadEvents.apply(): the generator's arguments, locals and position

vars == <<block_map, last_block_read, pc, tries_left, max_purge, reorg_detected, passes, ret,
          truncating, scan>>

\* the fields and the call protocol of the monitor
monitor_vars == <<block_map, last_block_read, pc, tries_left, max_purge, reorg_detected, passes,
                  ret, truncating>>

---------------------------------------------------------------------------
(* Bounds of the model *)

\* block numbers are 0..MaxBlock; the node's tip never exceeds MaxBlock
MaxBlock == 3

\* the monitor's check_depth field as configured in the model (the default is 20)
check_depth == 1

\* the monitor's max_cycle_tries attribute is set to 1..MaxCycleTries (the default is 10)
MaxCycleTries == 3

\* default of figure_reorganisation_and_new_blocks(max_range=...)
DefaultMaxRange == 1000000

\* the node answers one eth_getLogs request with at most MaxLogs logs
MaxLogs == 3

\* prepare_filter() is called with at most MaxEvents event descriptors
MaxEvents == 3

BlockNumbers == 0..MaxBlock

Hashes == {"hA", "hB"}

\* The timestamp the node reports for the block with hash h at height n.
TimestampOf(n, h) == 100 * (n + 1) + (IF h = "hA" THEN 1 ELSE 2)

\* BlockHeader(block_number, block_hash, timestamp)
BlockHeader(n, h) == [block_number |-> n, block_hash |-> h, timestamp |-> TimestampOf(n, h)]

Headers == {BlockHeader(n, h) : n \in BlockNumbers, h \in Hashes}

\* Python's None, and a returned value v
None == <<>>
Some(v) == <<v>>

Max(S) == CHOOSE x \in S : \A y \in S : y <= x
Min(S) == CHOOSE x \in S : \A y \in S : x <= y
max2(a, b) == IF a >= b THEN a ELSE b
min2(a, b) == IF a <= b THEN a ELSE b

\* the dict without the keys of K
Without(map, K) == [k \in DOMAIN map \ K |-> map[k]]

EmptyMap == Without(<<>>, {})

---------------------------------------------------------------------------
(* Names that the module reorganization_monitor.py uses but never binds:   *)
(* evaluating them raises NameError.                                       *)

\* update_chain(): time.sleep(self.reorg_wait_seconds); `time` is imported nowhere
\* in the module (only inside the docstring example), so the call raises NameError.
time_sleep == "NameError"

\* update_chain(): raise ReorganisationResolutionFailure(...); the class is not defined
ReorganisationResolutionFailure == "NameError"

\* figure_reorganisation_and_new_blocks(): raise TooLongRange(...); the class is not defined
TooLongRange == "NameError"

\* get_block_timestamp(): raise BlockNotAvailable(...); the class is not defined
BlockNotAvailable == "NameError"

\* to_pandas(): asdict(h); dataclasses.asdict is not imported
asdict == "NameError"

---------------------------------------------------------------------------
(* The header source: JSONRPCReorganizationMonitor *)

\* get_last_block_live(): whatever tip the node reports
get_last_block_live == BlockNumbers

\* fetch_block_data(start_block, end_block): one request per block number, in
\* increasing order; the node answers each with a header carrying any hash, and a
\* null answer ends the fetch early.
fetch_block_data(start_block, end_block) ==
    LET total == max2(end_block - start_block + 1, 0) IN
    UNION { { [i \in 1..k |-> BlockHeader(start_block + i - 1, hs[i])] : hs \in [1..k -> Hashes] }
            : k \in 0..total }

---------------------------------------------------------------------------
(* ReorganizationMonitor methods, as functions of the fields *)

\* has_data()
has_data(map) == DOMAIN map # {}

\* the largest block number of the dict, 0 for the empty dict
MaxKey(map) == IF has_data(map) THEN Max(DOMAIN map) ELSE 0

\* add_block() that stores the record and checks the order but leaves the cursor alone
add_block_keeps_cursor(map, lbr, record) ==
    LET block_number == record.block_number IN
    IF block_number \in DOMAIN map
    THEN [block_map |-> map, last_block_read |-> lbr, outcome |-> "AssertionError: Block already added"]
    ELSE LET stored == Without(map, {}) @@ (block_number :> record) IN
         IF lbr # 0 /\ lbr # block_number - 1
         THEN [block_map |-> stored, last_block_read |-> lbr,
               outcome |-> "AssertionError: Blocks must be added in order"]
         ELSE [block_map |-> stored, last_block_read |-> lbr, outcome |-> "ok"]

\* add_block() without the "Block already added" assertion: a header for a
\* buffered block number replaces the stored one
add_block_overwrites(map, lbr, record) ==
    LET block_number == record.block_number
        stored == Without(map, {block_number}) @@ (block_number :> record)
    IN IF lbr # 0 /\ lbr # block_number - 1
       THEN [block_map |-> stored, last_block_read |-> lbr,
             outcome |-> "AssertionError: Blocks must be added in order"]
       ELSE [block_map |-> stored, last_block_read |-> block_number, outcome |-> "ok"]

\* add_block(record)
add_block(map, lbr, record) ==
    LET block_number == record.block_number IN
    IF block_number \in DOMAIN map
    THEN [block_map |-> map, last_block_read |-> lbr, outcome |-> "AssertionError: Block already added"]
    ELSE LET stored == Without(map, {}) @@ (block_number :> record) IN
         IF lbr # 0 /\ lbr # block_number - 1
         THEN [block_map |-> stored, last_block_read |-> lbr,
               outcome |-> "AssertionError: Blocks must be added in order"]
         ELSE [block_map |-> stored, last_block_read |-> block_number, outcome |-> "ok"]

\* check_block_reorg() that hands the two hashes to the exception in the wrong order
check_block_reorg_swapped(map, block_number, block_hash) ==
    IF block_number \in DOMAIN map
    THEN IF map[block_number].block_hash # block_hash
         THEN [outcome |-> "ChainReorganizationDetected",
               value |-> [block_number |-> block_number,
                          original_hash |-> block_hash,
                          new_hash |-> map[block_number].block_hash]]
         ELSE [outcome |-> "ok", value |-> Some(map[block_number].timestamp)]
    ELSE [outcome |-> "ok", value |-> None]

\* check_block_reorg(block_number, block_hash)
check_block_reorg(map, block_number, block_hash) ==
    IF block_number \in DOMAIN map
    THEN IF map[block_number].block_hash # block_hash
         THEN [outcome |-> "ChainReorganizationDetected",
               value |-> [block_number |-> block_number,
                          original_hash |-> map[block_number].block_hash,
                          new_hash |-> block_hash]]
         ELSE [outcome |-> "ok", value |-> Some(map[block_number].timestamp)]
    ELSE [outcome |-> "ok", value |-> None]

\* truncate(latest_good_block): the loop deletes key after key and stops with
\* KeyError at the first key that is not in the dict, before last_block_read is set.
truncate(map, lbr, latest_good_block) ==
    IF lbr = 0
    THEN [block_map |-> map, last_block_read |-> lbr, outcome |-> "AssertionError"]
    ELSE LET todo == (latest_good_block + 1)..lbr
             absent == {k \in todo : k \notin DOMAIN map}
         IN IF absent = {}
            THEN [block_map |-> Without(map, todo), last_block_read |-> latest_good_block,
                  outcome |-> "ok"]
            ELSE [block_map |-> Without(map, {k \in todo : k < Min(absent)}),
                  last_block_read |-> lbr, outcome |-> "KeyError"]

\* skip_to_block(block_number)
skip_to_block(map, lbr, block_number) ==
    [block_map |-> map, last_block_read |-> block_number, outcome |-> "ok"]

\* restore(block_map): the dict is stored before max() of its keys is taken
restore(map, lbr, new_map) ==
    IF DOMAIN new_map = {}
    THEN [block_map |-> new_map, last_block_read |-> lbr, outcome |-> "ValueError"]
    ELSE [block_map |-> new_map, last_block_read |-> Max(DOMAIN new_map), outcome |-> "ok"]

\* get_block_timestamp(block_number)
get_block_timestamp(map, block_number) ==
    IF ~has_data(map) THEN [outcome |-> BlockNotAvailable, value |-> None]
    ELSE IF block_number \notin DOMAIN map THEN [outcome |-> BlockNotAvailable, value |-> None]
    ELSE [outcome |-> "ok", value |-> Some(map[block_number].timestamp)]

\* BlockHeader.to_pandas(data, partition_size) of eth_defi: one row
\* <<block_number, block_hash, timestamp>> per dict of the list
BlockHeader_to_pandas(data) ==
    [i \in DOMAIN data |-> <<data[i].block_number, data[i].block_hash, data[i].timestamp>>]

\* BlockHeader.from_pandas(df) of eth_defi: block number -> header built from its row
BlockHeader_from_pandas(df) ==
    LET numbers == {df[i][1] : i \in DOMAIN df}
        row(n) == df[CHOOSE i \in DOMAIN df : df[i][1] = n]
    IN Without([n \in numbers |-> [block_number |-> row(n)[1], block_hash |-> row(n)[2],
                                   timestamp |-> row(n)[3]]], {})

\* to_pandas(): the list comprehension evaluates asdict for the first header of
\* the dict; with no header the table is built from the empty list
to_pandas(map) ==
    IF has_data(map) THEN [outcome |-> asdict, value |-> None]
    ELSE [outcome |-> "ok", value |-> Some(BlockHeader_to_pandas(<<>>))]

\* load_pandas(df)
load_pandas(map, lbr, df) == restore(map, lbr, BlockHeader_from_pandas(df))

\* figure_reorganisation_and_new_blocks(): check_start_at
check_start_at(lbr) == max2(lbr - check_depth, 1)

\* figure_reorganisation_and_new_blocks(): the loop over the fetched headers, from
\* the i-th on
RECURSIVE reorg_scan(_, _, _, _)
reorg_scan(map, lbr, fetched, i) ==
    IF i > Len(fetched)
    THEN [block_map |-> map, last_block_read |-> lbr, outcome |-> "ok",
          e |-> None, consumed |-> Len(fetched)]
    ELSE LET block == fetched[i]
             c == check_block_reorg(map, block.block_number, block.block_hash)
         IN IF c.outcome # "ok"
            THEN [block_map |-> map, last_block_read |-> lbr, outcome |-> c.outcome,
                  e |-> c.value, consumed |-> i]
            ELSE IF block.block_number \notin DOMAIN map
                 THEN LET a == add_block(map, lbr, block) IN
                      IF a.outcome # "ok"
                      THEN [block_map |-> a.block_map, last_block_read |-> a.last_block_read,
                            outcome |-> a.outcome, e |-> None, consumed |-> i]
                      ELSE reorg_scan(a.block_map, a.last_block_read, fetched, i + 1)
                 ELSE reorg_scan(map, lbr, fetched, i + 1)

\* figure_reorganisation_and_new_blocks(max_range), for a node that reports the tip
\* chain_last_block and answers the fetch with `fetched`
figure_reorganisation_and_new_blocks(map, lbr, max_range, chain_last_block, fetched) ==
    IF max_range # None /\ chain_last_block - check_start_at(lbr) > max_range[1]
    THEN [block_map |-> map, last_block_read |-> lbr, outcome |-> TooLongRange,
          e |-> None, consumed |-> 0]
    ELSE reorg_scan(map, lbr, fetched, 1)

\* ChainReorganizationResolution(last_live_block, latest_block_with_good_data, reorg_detected)
ChainReorganizationResolution(last_live_block, latest_block_with_good_data, detected) ==
    [last_live_block |-> last_live_block,
     latest_block_with_good_data |-> latest_block_with_good_data,
     reorg_detected |-> detected]

\* update_chain() that builds the resolution with its first two arguments exchanged
update_chain_return_swapped(lbr, purge, detected) == ChainReorganizationResolution(purge, lbr, detected)

\* update_chain(): the value returned after a clean detection pass
update_chain_return(lbr, purge, detected) == ChainReorganizationResolution(lbr, purge, detected)

\* ChainReorganizationResolution.get_read_range()
get_read_range(r) ==
    IF r.last_live_block >= r.latest_block_with_good_data
    THEN [outcome |-> "ok", value |-> <<r.latest_block_with_good_data + 1, r.last_live_block>>]
    ELSE [outcome |-> "AssertionError", value |-> None]

\* update_chain(): the new max_purge in the handler of ChainReorganizationDetected
update_chain_purge(purge, e) ==
    IF purge # 0 THEN min2(e.block_number - 1, purge) ELSE e.block_number

---------------------------------------------------------------------------
(* The event reader: python/prod/event/process/read_events.py *)

\* Names that read_events.py uses but never binds: raising them raises NameError.
ReadingLogsFailed == "NameError"
BadTimestampValueReturned == "NameError"
TimestampNotFound == "NameError"

\* the event descriptors of the model: name and event.build_filter().topics.  The
\* Transfer events of ERC-20 and ERC-721 have the same signature, hence the same
\* topic hash; Liquidity matches two signatures.
EventDescriptors ==
    { [name |-> "Swap", signatures |-> <<"tSwap">>],
      [name |-> "Transfer20", signatures |-> <<"tTransfer">>],
      [name |-> "Transfer721", signatures |-> <<"tTransfer">>],
      [name |-> "Liquidity", signatures |-> <<"tMint", "tBurn">>],
      [name |-> "Sync", signatures |-> <<"tSync">>] }

\* event.build_filter().topics
build_filter_topics(event) == event.signatures

\* prepare_filter(): the two nested loops, from the j-th signature of the i-th event on
RECURSIVE prepare_filter_loop(_, _, _, _, _)
prepare_filter_loop(events, i, j, topics, bloom) ==
    IF i > Len(events) THEN [topics |-> topics, bloom |-> bloom]
    ELSE LET signatures == build_filter_topics(events[i]) IN
         IF j > Len(signatures) THEN prepare_filter_loop(events, i + 1, 1, topics, bloom)
         ELSE LET signature == signatures[j] IN
              prepare_filter_loop(events, i, j + 1,
                                  Without(topics, {signature}) @@ (signature :> events[i]),
                                  bloom \cup {signature})

\* prepare_filter(events): Filter(topics, bloom)
prepare_filter(events) ==
    [outcome |-> "ok", value |-> Some(prepare_filter_loop(events, 1, 1, EmptyMap, {}))]

\* the 32-byte hash of the block at height n whose header carries the fork label h
BlockHash(n, h) == <<n, h>>

\* a log as eth_getLogs returns it
Log(n, h, topic) == [blockNumber |-> n, blockHash |-> h, topics |-> <<topic>>]

\* web3.manager.request_blocking("eth_getLogs", ...): the node answers with logs of
\* the requested blocks and topics, in any order and from any fork
eth_getLogs(fromBlock, toBlock, topics) ==
    LET matching == { Log(n, h, t) : n \in fromBlock..toBlock, h \in Hashes, t \in topics } IN
    UNION { [1..k -> matching] : k \in 0..MaxLogs }

\* extract_timestamps_json_rpc(web3, start_block, end_block): block hash -> timestamp,
\* for the header the node has for every block of the range at that moment
extract_timestamps_json_rpc(start_block, end_block) ==
    { [key \in { BlockHash(n, hs[n]) : n \in start_block..end_block } |-> TimestampOf(key[1], key[2])]
      : hs \in [start_block..end_block -> Hashes] }

\* apply() that lets the chunks overlap by one block
last_of_chunk_overlapping(end_block, block_num, chunk_size) == min2(end_block, block_num + chunk_size)

\* apply(): last_of_chunk
last_of_chunk(end_block, block_num, chunk_size) == min2(end_block, block_num + chunk_size - 1)

\* extract_events() that never refuses its arguments
extract_events_precheck_absent(reorg_mon, extract_timestamps) == "ok"

\* extract_events(): the assertion on its arguments
extract_events_precheck(reorg_mon, extract_timestamps) ==
    IF reorg_mon /\ extract_timestamps # None
    THEN "AssertionError: You cannot pass both reorg_mon and extract_timestamps"
    ELSE "ok"

\* the dict that extract_events() yields for a log
LogResult(log, event, chunk_id, timestamp) ==
    [blockNumber |-> log.blockNumber, blockHash |-> log.blockHash, topics |-> log.topics,
     event |-> event, chunk_id |-> chunk_id, timestamp |-> timestamp]

\* extract_events() that takes a mismatch for a block without timestamp
extract_events_log_lenient(map, reorg_mon, timestamps, filter, chunk_id, log) ==
    LET event == filter.topics[log.topics[1]] IN
    IF reorg_mon
    THEN LET c == check_block_reorg(map, log.blockNumber, log.blockHash) IN
         IF c.outcome # "ok"
         THEN [outcome |-> "ok", value |-> LogResult(log, event, chunk_id, None)]
         ELSE IF c.value = None
         THEN [outcome |-> "AssertionError: Timestamp missing", value |-> None]
         ELSE [outcome |-> "ok", value |-> LogResult(log, event, chunk_id, c.value)]
    ELSE IF timestamps # None
    THEN IF BlockHash(log.blockNumber, log.blockHash) \in DOMAIN timestamps[1]
         THEN [outcome |-> "ok",
               value |-> LogResult(log, event, chunk_id,
                                   Some(timestamps[1][BlockHash(log.blockNumber, log.blockHash)]))]
         ELSE [outcome |-> TimestampNotFound, value |-> None]
    ELSE [outcome |-> "ok", value |-> LogResult(log, event, chunk_id, None)]

\* extract_events() without the "Timestamp missing" assertion: a log of a block
\* the monitor has no record of is yielded with timestamp None
extract_events_log_unchecked(map, reorg_mon, timestamps, filter, chunk_id, log) ==
    LET event == filter.topics[log.topics[1]] IN
    IF reorg_mon
    THEN LET c == check_block_reorg(map, log.blockNumber, log.blockHash) IN
         IF c.outcome # "ok"
         THEN [outcome |-> c.outcome, value |-> c.value]
         ELSE [outcome |-> "ok", value |-> LogResult(log, event, chunk_id, c.value)]
    ELSE IF timestamps # None
    THEN IF BlockHash(log.blockNumber, log.blockHash) \in DOMAIN timestamps[1]
         THEN [outcome |-> "ok",
               value |-> LogResult(log, event, chunk_id,
                                   Some(timestamps[1][BlockHash(log.blockNumber, log.blockHash)]))]
         ELSE [outcome |-> TimestampNotFound, value |-> None]
    ELSE [outcome |-> "ok", value |-> LogResult(log, event, chunk_id, None)]

\* extract_events(): the body of the loop over the logs, for one log: what is
\* yielded, or how the generator fails
extract_events_log(map, reorg_mon, timestamps, filter, chunk_id, log) ==
    LET event == filter.topics[log.topics[1]] IN
    IF reorg_mon
    THEN LET c == check_block_reorg(map, log.blockNumber, log.blockHash) IN
         IF c.outcome # "ok"
         THEN [outcome |-> c.outcome, value |-> c.value]
         ELSE IF c.value = None
         THEN [outcome |-> "AssertionError: Timestamp missing", value |-> None]
         ELSE [outcome |-> "ok", value |-> LogResult(log, event, chunk_id, c.value)]
    ELSE IF timestamps # None
    THEN IF BlockHash(log.blockNumber, log.blockHash) \in DOMAIN timestamps[1]
         THEN [outcome |-> "ok",
               value |-> LogResult(log, event, chunk_id,
                                   Some(timestamps[1][BlockHash(log.blockNumber, log.blockHash)]))]
         ELSE [outcome |-> TimestampNotFound, value |-> None]
    ELSE [outcome |-> "ok", value |-> LogResult(log, event, chunk_id, None)]

---------------------------------------------------------------------------
(* State machine *)

NoLocals ==
    /\ tries_left' = 0
    /\ max_purge' = 0
    /\ reorg_detected' = FALSE
    /\ passes' = <<>>

Call(op, arg, outcome, value) == [op |-> op, arg |-> arg, outcome |-> outcome, value |-> value]

\* no apply() generator exists
NoScan == [pc |-> "off"]

Init ==
    /\ block_map = EmptyMap
    /\ last_block_read = 0
    /\ pc = "idle"
    /\ tries_left = 0
    /\ max_purge = 0
    /\ reorg_detected = FALSE
    /\ passes = <<>>
    /\ ret = Call("none", None, "ok", None)
    /\ truncating = None
    /\ scan = NoScan

\* a call of a method that runs in one step: r is what the method computed
Finish(op, arg, r, value) ==
    /\ block_map' = r.block_map
    /\ last_block_read' = r.last_block_read
    /\ pc' = "returned"
    /\ ret' = Call(op, arg, r.outcome, value)
    /\ UNCHANGED <<tries_left, max_purge, reorg_detected, passes, truncating, scan>>

\* the caller drops the record of the call that has ended
Discard ==
    /\ pc = "returned"
    /\ pc' = "idle"
    /\ ret' = Call("none", None, "ok", None)
    /\ truncating' = None
    /\ UNCHANGED <<block_map, last_block_read, tries_left, max_purge, reorg_detected, passes, scan>>

AddBlock ==
    /\ pc = "idle"
    /\ \E record \in Headers :
          Finish("add_block", record, add_block(block_map, last_block_read, record), None)

CheckBlockReorg ==
    /\ pc = "idle"
    /\ \E n \in BlockNumbers, h \in Hashes :
          LET c == check_block_reorg(block_map, n, h) IN
          /\ ret' = Call("check_block_reorg", <<n, h>>, c.outcome, c.value)
          /\ pc' = "returned"
          /\ UNCHANGED <<block_map, last_block_read, tries_left, max_purge,
                         reorg_detected, passes, truncating, scan>>

Truncate ==
    /\ pc = "idle"
    /\ \E g \in BlockNumbers :
          Finish("truncate", g, truncate(block_map, last_block_read, g), None)

SkipToBlock ==
    /\ pc = "idle"
    /\ \E n \in BlockNumbers :
          Finish("skip_to_block", n, skip_to_block(block_map, last_block_read, n), None)

\* the dicts handed to restore() in the model: runs of consecutive blocks of one
\* fork, the same with a hole, the same with the last block of the other fork, and
\* the empty dict
FlatMap(lo, hi, h) == Without([n \in lo..hi |-> BlockHeader(n, h)], {})

OtherHash(h) == IF h = "hA" THEN "hB" ELSE "hA"

RestoreInputs ==
    { FlatMap(lo, hi, h) : lo \in BlockNumbers, hi \in BlockNumbers, h \in Hashes }
    \cup { Without(FlatMap(lo, MaxBlock, h), {lo + 1}) : lo \in 0..(MaxBlock - 2), h \in Hashes }
    \cup { Without(FlatMap(lo, MaxBlock, h), {MaxBlock}) @@ (MaxBlock :> BlockHeader(MaxBlock, OtherHash(h)))
            : lo \in BlockNumbers, h \in Hashes }

Restore ==
    /\ pc = "idle"
    /\ \E new_map \in RestoreInputs :
          Finish("restore", new_map, restore(block_map, last_block_read, new_map), None)

GetBlockTimestamp ==
    /\ pc = "idle"
    /\ \E n \in BlockNumbers :
          LET t == get_block_timestamp(block_map, n) IN
          /\ ret' = Call("get_block_timestamp", n, t.outcome, t.value)
          /\ pc' = "returned"
          /\ UNCHANGED <<block_map, last_block_read, tries_left, max_purge,
                         reorg_detected, passes, truncating, scan>>

\* to_pandas(): the caller gets the table, the monitor is not changed
ToPandas ==
    /\ pc = "idle"
    /\ LET t == to_pandas(block_map) IN
       /\ ret' = Call("to_pandas", None, t.outcome, t.value)
       /\ pc' = "returned"
       /\ UNCHANGED <<block_map, last_block_read, tries_left, max_purge,
                      reorg_detected, passes, truncating, scan>>

\* load_pandas(df) with the table that to_pandas() has just returned
LoadPandas ==
    /\ pc = "returned"
    /\ ret.op = "to_pandas"
    /\ ret.outcome = "ok"
    /\ Finish("load_pandas", ret.value[1], load_pandas(block_map, last_block_read, ret.value[1]), None)

\* load_initial_block_headers(): the loop that adds the fetched headers, from the i-th on
RECURSIVE load_scan(_, _, _, _)
load_scan(map, lbr, fetched, i) ==
    IF i > Len(fetched)
    THEN [block_map |-> map, last_block_read |-> lbr, outcome |-> "ok"]
    ELSE LET a == add_block(map, lbr, fetched[i]) IN
         IF a.outcome # "ok" THEN a
         ELSE load_scan(a.block_map, a.last_block_read, fetched, i + 1)

\* load_initial_block_headers() that starts where the caller asked, whatever the
\* buffer holds
load_start_block_requested(map, block_count, start_block, end_block) ==
    IF block_count # None /\ block_count[1] # 0
    THEN Some(max2(end_block - block_count[1], 1))
    ELSE start_block

\* load_initial_block_headers(block_count, start_block): the first block to fetch
\* when the node's tip is end_block (None: start_block stays None)
load_start_block(map, block_count, start_block, end_block) ==
    IF has_data(map) THEN Some(Max(DOMAIN map) + 1)
    ELSE IF block_count # None /\ block_count[1] # 0
         THEN Some(max2(end_block - block_count[1], 1))
         ELSE start_block

\* load_initial_block_headers(block_count, start_block) before the fetch: how it
\* fails without fetching anything, or "ok"
load_precheck(map, block_count, start_block, end_block) ==
    IF block_count # None /\ block_count[1] # 0 /\ start_block # None /\ start_block[1] # 0
    THEN "AssertionError: Give block_cout or start_block"
    ELSE IF load_start_block(map, block_count, start_block, end_block) = None
         THEN "TypeError"
         ELSE "ok"

\* the arguments of load_initial_block_headers() in the model: <<block_count, start_block>>
LoadArgs ==
    { <<Some(c), None>> : c \in 0..MaxBlock }
    \cup { <<None, Some(s)>> : s \in BlockNumbers }
    \cup { <<None, None>>, <<Some(1), Some(1)>> }

LoadInitialBlockHeaders ==
    /\ pc = "idle"
    /\ \E args \in LoadArgs, end_block \in get_last_block_live :
          LET pre == load_precheck(block_map, args[1], args[2], end_block) IN
          IF pre # "ok"
          THEN Finish("load_initial_block_headers", args,
                      [block_map |-> block_map, last_block_read |-> last_block_read,
                       outcome |-> pre], None)
          ELSE LET start_block == load_start_block(block_map, args[1], args[2], end_block)[1] IN
               \E fetched \in fetch_block_data(start_block, end_block) :
                  Finish("load_initial_block_headers", args,
                         load_scan(block_map, last_block_read, fetched, 1),
                         <<start_block, end_block>>)

\* update_chain(): the lines before the loop.  max_cycle_tries is the attribute as
\* the caller has set it; the call record keeps the fields as they are on entry.
UpdateChainBegin ==
    /\ pc = "idle"
    /\ \E max_cycle_tries \in 1..MaxCycleTries :
          /\ tries_left' = max_cycle_tries
          /\ ret' = Call("update_chain",
                         [last_block_read |-> last_block_read, block_map |-> block_map,
                          max_cycle_tries |-> max_cycle_tries],
                         "running", None)
    /\ pc' = "update"
    /\ max_purge' = last_block_read
    /\ reorg_detected' = FALSE
    /\ passes' = <<>>
    /\ UNCHANGED <<block_map, last_block_read, truncating, scan>>

\* update_chain() ends: its locals are gone, the caller sees `outcome`
UpdateChainEnd(map, lbr, outcome, value, purge, detected, tries, log) ==
    /\ block_map' = map
    /\ last_block_read' = lbr
    /\ pc' = "returned"
    /\ NoLocals
    /\ ret' = Call("update_chain", ret.arg, outcome,
                   [resolution |-> value, max_purge |-> purge, reorg_detected |-> detected,
                    tries_left |-> tries, passes |-> log])
    /\ UNCHANGED <<truncating, scan>>

\* update_chain(): one turn of the while loop
UpdateChainPass ==
    /\ pc = "update"
    /\ IF tries_left > 0
       THEN \E chain_last_block \in get_last_block_live :
            \E fetched \in fetch_block_data(check_start_at(last_block_read), chain_last_block) :
              LET f == figure_reorganisation_and_new_blocks(
                           block_map, last_block_read, Some(DefaultMaxRange),
                           chain_last_block, fetched)
                  log == Append(passes, [chain_last_block |-> chain_last_block,
                                         fetched |-> SubSeq(fetched, 1, f.consumed),
                                         outcome |-> f.outcome, e |-> f.e])
              IN \* only what the pass consumed of the node's answers is part of the run
                 /\ f.consumed = Len(fetched) \/ f.outcome = TooLongRange
                 /\ IF f.outcome = "ok"
                    THEN UpdateChainEnd(f.block_map, f.last_block_read, "ok",
                                        update_chain_return(f.last_block_read, max_purge, reorg_detected),
                                        max_purge, reorg_detected, tries_left, log)
                    ELSE IF f.outcome = "ChainReorganizationDetected"
                    THEN LET latest_good_block == f.e.block_number - 1
                             purge == update_chain_purge(max_purge, f.e)
                             t == truncate(f.block_map, f.last_block_read, latest_good_block)
                         IN IF t.outcome # "ok"
                            THEN UpdateChainEnd(t.block_map, t.last_block_read, t.outcome, None,
                                                purge, TRUE, tries_left, log)
                            ELSE IF time_sleep # "ok"
                            THEN UpdateChainEnd(t.block_map, t.last_block_read, time_sleep, None,
                                                purge, TRUE, tries_left - 1, log)
                            ELSE /\ block_map' = t.block_map
                                 /\ last_block_read' = t.last_block_read
                                 /\ tries_left' = tries_left - 1
                                 /\ max_purge' = purge
                                 /\ reorg_detected' = TRUE
                                 /\ passes' = log
                                 /\ UNCHANGED <<pc, ret, truncating, scan>>
                    ELSE UpdateChainEnd(f.block_map, f.last_block_read, f.outcome, None,
                                        max_purge, reorg_detected, tries_left, log)
       ELSE UpdateChainEnd(block_map, last_block_read, ReorganisationResolutionFailure, None,
                           max_purge, reorg_detected, tries_left, passes)

Next ==
    \/ AddBlock
    \/ CheckBlockReorg
    \/ Truncate
    \/ SkipToBlock
    \/ Restore
    \/ LoadInitialBlockHeaders
    \/ UpdateChainBegin
    \/ UpdateChainPass
    \/ GetBlockTimestamp
    \/ ToPandas
    \/ LoadPandas
    \/ Discard

Spec == Init /\ [][Next]_vars

\* add_block() calls that all succeed, on a monitor that starts empty; the only
\* other calls are reads (check_block_reorg)
AddBlockSucceeds == AddBlock /\ ret'.outcome = "ok"

NextAddBlock ==
    \/ AddBlockSucceeds
    \/ CheckBlockReorg
    \/ Discard

SpecAddBlock == Init /\ [][NextAddBlock]_vars

---------------------------------------------------------------------------
(* update_chain() statement by statement inside truncate(), and interrupted:   *)
(* update_chain() catches ChainReorganizationDetected only, so a               *)
(* KeyboardInterrupt (or any exception raised into the thread) leaves it at    *)
(* the statement where it arrives.                                             *)

\* update_chain(): one detection pass and, on ChainReorganizationDetected, the
\* handler up to the for loop of truncate()
UpdateChainDetect ==
    /\ pc = "update"
    /\ truncating = None
    /\ IF tries_left > 0
       THEN \E chain_last_block \in get_last_block_live :
            \E fetched \in fetch_block_data(check_start_at(last_block_read), chain_last_block) :
              LET f == figure_reorganisation_and_new_blocks(
                           block_map, last_block_read, Some(DefaultMaxRange),
                           chain_last_block, fetched)
                  log == Append(passes, [chain_last_block |-> chain_last_block,
                                         fetched |-> SubSeq(fetched, 1, f.consumed),
                                         outcome |-> f.outcome, e |-> f.e])
              IN /\ f.consumed = Len(fetched) \/ f.outcome = TooLongRange
                 /\ IF f.outcome = "ok"
                    THEN UpdateChainEnd(f.block_map, f.last_block_read, "ok",
                                        update_chain_return(f.last_block_read, max_purge, reorg_detected),
                                        max_purge, reorg_detected, tries_left, log)
                    ELSE IF f.outcome = "ChainReorganizationDetected"
                    THEN LET latest_good_block == f.e.block_number - 1
                             purge == update_chain_purge(max_purge, f.e)
                         IN IF f.last_block_read = 0
                            THEN UpdateChainEnd(f.block_map, f.last_block_read, "AssertionError",
                                                None, purge, TRUE, tries_left, log)
                            ELSE /\ block_map' = f.block_map
                                 /\ last_block_read' = f.last_block_read
                                 /\ max_purge' = purge
                                 /\ reorg_detected' = TRUE
                                 /\ passes' = log
                                 /\ truncating' = Some([latest_good_block |-> latest_good_block,
                                                        block_to_delete |-> latest_good_block + 1])
                                 /\ UNCHANGED <<pc, ret, tries_left, scan>>
                    ELSE UpdateChainEnd(f.block_map, f.last_block_read, f.outcome, None,
                                        max_purge, reorg_detected, tries_left, log)
       ELSE UpdateChainEnd(block_map, last_block_read, ReorganisationResolutionFailure, None,
                           max_purge, reorg_detected, tries_left, passes)

\* truncate(): one turn of the for loop, del self.block_map[block_to_delete]
TruncateDelete ==
    /\ pc = "update"
    /\ truncating # None
    /\ truncating[1].block_to_delete <= last_block_read
    /\ IF truncating[1].block_to_delete \in DOMAIN block_map
       THEN /\ block_map' = Without(block_map, {truncating[1].block_to_delete})
            /\ truncating' = Some([truncating[1] EXCEPT !.block_to_delete = @ + 1])
            /\ UNCHANGED <<last_block_read, pc, tries_left, max_purge, reorg_detected, passes,
                           ret, scan>>
       ELSE UpdateChainEnd(block_map, last_block_read, "KeyError", None,
                           max_purge, reorg_detected, tries_left, passes)

\* truncate(): the assignment to last_block_read after the loop; then
\* update_chain() counts the try and sleeps
TruncateReturn ==
    /\ pc = "update"
    /\ truncating # None
    /\ truncating[1].block_to_delete > last_block_read
    /\ IF time_sleep # "ok"
       THEN UpdateChainEnd(block_map, truncating[1].latest_good_block, time_sleep, None,
                           max_purge, reorg_detected, tries_left - 1, passes)
       ELSE /\ last_block_read' = truncating[1].latest_good_block
            /\ tries_left' = tries_left - 1
            /\ truncating' = None
            /\ UNCHANGED <<block_map, pc, max_purge, reorg_detected, passes, ret, scan>>

\* KeyboardInterrupt arrives while update_chain() runs: the call ends where it is;
\* `truncating` keeps the statement of truncate() at which it was interrupted
Cancel ==
    /\ pc = "update"
    /\ UpdateChainEnd(block_map, last_block_read, "KeyboardInterrupt", None,
                      max_purge, reorg_detected, tries_left, passes)

NextCancel ==
    \/ LoadInitialBlockHeaders
    \/ UpdateChainBegin
    \/ UpdateChainDetect
    \/ TruncateDelete
    \/ TruncateReturn
    \/ Cancel
    \/ Discard

SpecCancel == Init /\ [][NextCancel]_vars

---------------------------------------------------------------------------
(* ReadEvents.apply(): the generator, one step per chunk request and per log *)

\* the filter of the scans of the model
ScanFilter == prepare_filter(<< [name |-> "Swap", signatures |-> <<"tSwap">>] >>).value[1]

\* the arguments of apply() in the model.  extract_timestamps is None or the
\* default resolver; reorg_mon is the monitor or None.
ScanArgs ==
    [start_block : BlockNumbers, end_block : BlockNumbers, chunk_size : 1..MaxBlock,
     extract_timestamps : {None, Some("extract_timestamps_json_rpc")}, reorg_mon : BOOLEAN]

\* apply(...): the generator is created; nothing runs before the consumer asks for
\* the first record
Apply ==
    /\ scan.pc = "off"
    /\ pc = "idle"
    /\ \E args \in ScanArgs :
          scan' = [pc |-> "apply", args |-> args, block_num |-> args.start_block,
                   logs |-> <<>>, timestamps |-> None, i |-> 0, yielded |-> <<>>,
                   total_events |-> 0, returned_before |-> 0, requests |-> <<>>,
                   outcome |-> "running", e |-> None]
    /\ UNCHANGED monitor_vars

\* the generator ends: exhausted ("ok") or with an exception
ScanEnd(outcome, e, requests) ==
    scan' = [scan EXCEPT !.pc = "ended", !.outcome = outcome, !.e = e, !.requests = requests]

\* apply(): the for loop takes the next chunk and extract_events() runs up to its
\* loop over the logs
ApplyChunk ==
    /\ scan.pc = "apply"
    /\ UNCHANGED monitor_vars
    /\ LET a == scan.args
           last == last_of_chunk(a.end_block, scan.block_num, a.chunk_size)
           pre == extract_events_precheck(a.reorg_mon, a.extract_timestamps)
           requests == Append(scan.requests, <<scan.block_num, last>>)
       IN IF scan.block_num > a.end_block
          THEN ScanEnd("ok", None, scan.requests)
          ELSE IF pre # "ok"
          THEN ScanEnd(pre, None, scan.requests)
          ELSE \/ ScanEnd(ReadingLogsFailed, None, requests)
               \/ \E logs \in eth_getLogs(scan.block_num, last, DOMAIN ScanFilter.topics) :
                  \E timestamps \in
                        IF logs # <<>> /\ a.extract_timestamps # None
                        THEN { Some(t) : t \in extract_timestamps_json_rpc(scan.block_num, last) }
                        ELSE { None } :
                     scan' = [scan EXCEPT !.pc = "extract_events", !.logs = logs,
                                          !.timestamps = timestamps, !.i = 1,
                                          !.yielded = <<>>, !.requests = requests]

\* extract_events()/apply() that move on to the next chunk when the last log of
\* the chunk is reached, before its record has been handed to the consumer
ExtractLogPrefetch ==
    /\ scan.pc = "extract_events"
    /\ UNCHANGED monitor_vars
    /\ IF scan.i >= Len(scan.logs)
       THEN scan' = [scan EXCEPT !.pc = "apply",
                                 !.block_num = scan.block_num + scan.args.chunk_size,
                                 !.returned_before = scan.returned_before + Len(scan.logs),
                                 !.logs = <<>>, !.timestamps = None, !.i = 0, !.yielded = <<>>]
       ELSE LET r == extract_events_log(block_map, scan.args.reorg_mon, scan.timestamps,
                                        ScanFilter, scan.block_num, scan.logs[scan.i])
            IN IF r.outcome = "ok"
               THEN scan' = [scan EXCEPT !.yielded = Append(scan.yielded, r.value),
                                         !.total_events = scan.total_events + 1,
                                         !.i = scan.i + 1]
               ELSE ScanEnd(r.outcome, r.value, scan.requests)

\* extract_events(): the loop over the logs takes the next log and yields its
\* record or fails; after the last log apply() moves on to the next chunk
ExtractLog ==
    /\ scan.pc = "extract_events"
    /\ UNCHANGED monitor_vars
    /\ IF scan.i > Len(scan.logs)
       THEN scan' = [scan EXCEPT !.pc = "apply",
                                 !.block_num = scan.block_num + scan.args.chunk_size,
                                 !.returned_before = scan.returned_before + Len(scan.logs),
                                 !.logs = <<>>, !.timestamps = None, !.i = 0, !.yielded = <<>>]
       ELSE LET r == extract_events_log(block_map, scan.args.reorg_mon, scan.timestamps,
                                        ScanFilter, scan.block_num, scan.logs[scan.i])
            IN IF r.outcome = "ok"
               THEN scan' = [scan EXCEPT !.yielded = Append(scan.yielded, r.value),
                                         !.total_events = scan.total_events + 1,
                                         !.i = scan.i + 1]
               ELSE ScanEnd(r.outcome, r.value, scan.requests)

\* the consumer drops the generator
ScanDiscard ==
    /\ scan.pc = "ended"
    /\ scan' = NoScan
    /\ UNCHANGED monitor_vars

\* the monitors that the scans of the model start with: a new one, and two that
\* load_initial_block_headers(start_block=...) has filled: blocks 1..MaxBlock - 1
\* of one fork, blocks 2..MaxBlock of the other
ScanBuffers == { EmptyMap, FlatMap(1, MaxBlock - 1, "hA"), FlatMap(2, MaxBlock, "hB") }

InitScan ==
    /\ block_map \in ScanBuffers
    /\ last_block_read = MaxKey(block_map)
    /\ pc = "idle"
    /\ tries_left = 0
    /\ max_purge = 0
    /\ reorg_detected = FALSE
    /\ passes = <<>>
    /\ ret = Call("none", None, "ok", None)
    /\ truncating = None
    /\ scan = NoScan

NextScan ==
    \/ Apply
    \/ ApplyChunk
    \/ ExtractLog
    \/ ScanDiscard

SpecScan == InitScan /\ [][NextScan]_vars

\* prepare_filter(events), with any list of event descriptors
PrepareFilter ==
    /\ pc = "idle"
    /\ \E k \in 0..MaxEvents : \E events \in [1..k -> EventDescriptors] :
          LET f == prepare_filter(events) IN
          /\ ret' = Call("prepare_filter", events, f.outcome, f.value)
          /\ pc' = "returned"
          /\ UNCHANGED <<block_map, last_block_read, tries_left, max_purge,
                         reorg_detected, passes, truncating, scan>>

NextFilter ==
    \/ PrepareFilter
    \/ Discard

SpecFilter == Init /\ [][NextFilter]_vars

---------------------------------------------------------------------------
(* figure_reorganisation_and_new_blocks(max_range) called on its own *)

\* the values of max_range: None (disabled), a small limit, the default
MaxRanges == {None} \cup {Some(r) : r \in 0..MaxBlock} \cup {Some(DefaultMaxRange)}

\* figure_reorganisation_and_new_blocks(max_range): one detection pass, called
\* directly; ChainReorganizationDetected and every other error reach the caller
FigureReorganisationAndNewBlocks ==
    /\ pc = "idle"
    /\ \E max_range \in MaxRanges :
       \E chain_last_block \in get_last_block_live :
       \E fetched \in fetch_block_data(check_start_at(last_block_read), chain_last_block) :
          LET f == figure_reorganisation_and_new_blocks(
                       block_map, last_block_read, max_range, chain_last_block, fetched)
          IN \* only what the pass consumed of the node's answers is part of the run
             /\ f.consumed = Len(fetched)
             /\ Finish("figure_reorganisation_and_new_blocks",
                       [max_range |-> max_range, chain_last_block |-> chain_last_block,
                        block_map |-> block_map, last_block_read |-> last_block_read],
                       f, [fetched |-> fetched, e |-> f.e])

NextDetect ==
    \/ LoadInitialBlockHeaders
    \/ FigureReorganisationAndNewBlocks
    \/ Discard

SpecDetect == Init /\ [][NextDetect]_vars

---------------------------------------------------------------------------
(* Successive update_chain() calls of one consumer *)

\* the resolution the consumer holds when a call of update_chain() has ended: the
\* one just returned, or, when the call raised, the one it held before
held_resolution(call) ==
    IF call.outcome = "ok" THEN Some(call.value.resolution)
    ELSE IF "previous" \in DOMAIN call.arg THEN Some(call.arg.previous)
    ELSE None

\* update_chain() called again by a consumer whose earlier update_chain() returned
\* a resolution (`previous`), with nothing but update_chain() calls in between
UpdateChainAgain ==
    /\ pc = "returned"
    /\ ret.op = "update_chain"
    /\ held_resolution(ret) # None
    /\ \E max_cycle_tries \in 1..MaxCycleTries :
          /\ tries_left' = max_cycle_tries
          /\ ret' = Call("update_chain",
                         [last_block_read |-> last_block_read, block_map |-> block_map,
                          max_cycle_tries |-> max_cycle_tries,
                          previous |-> held_resolution(ret)[1]],
                         "running", None)
    /\ pc' = "update"
    /\ max_purge' = last_block_read
    /\ reorg_detected' = FALSE
    /\ passes' = <<>>
    /\ UNCHANGED <<block_map, last_block_read, truncating, scan>>

NextSuccessive ==
    \/ AddBlock
    \/ SkipToBlock
    \/ LoadInitialBlockHeaders
    \/ UpdateChainBegin
    \/ UpdateChainAgain
    \/ UpdateChainPass
    \/ Discard

SpecSuccessive == Init /\ [][NextSuccessive]_vars

---------------------------------------------------------------------------

(* Properties *)

IsGapFree(map) == \A n \in DOMAIN map, m \in DOMAIN map : \A k \in n..m : k \in DOMAIN map

Reorg == "ChainReorganizationDetected"

\* update_chain() has returned or raised
UpdateEnded == ret.op = "update_chain" /\ ret.outcome # "running"

\* every detection pass of the log ended in ChainReorganizationDetected
AllReorg(log) == \A i \in DOMAIN log : log[i].outcome = Reorg

\* C1: after add_block() calls that all succeed on a monitor that starts empty
\* (block number 0 included), the block numbers of the buffer are a contiguous
\* range whose maximum is last_block_read.
C1_NoGapAfterAddBlocks ==
    /\ IsGapFree(block_map)
    /\ has_data(block_map) => Max(DOMAIN block_map) = last_block_read

\* C2: in every reachable state last_block_read is the largest block number of the
\* buffer, and 0 when the buffer is empty.
C2_LastBlockReadIsMaxKey == last_block_read = MaxKey(block_map)

\* C3: check_block_reorg(n, h) raises ChainReorganizationDetected(n, s, h) when
\* the buffer holds n with a hash s # h, returns the stored timestamp when s = h,
\* returns None when n is not buffered, and never changes the buffer or
\* last_block_read.
C3_CheckBlockHeader ==
    [][ret'.op = "check_block_reorg" =>
         LET n == ret'.arg[1]
             h == ret'.arg[2]
         IN /\ UNCHANGED <<block_map, last_block_read>>
            /\ (n \in DOMAIN block_map /\ block_map[n].block_hash # h) =>
                  /\ ret'.outcome = Reorg
                  /\ ret'.value = [block_number |-> n,
                                   original_hash |-> block_map[n].block_hash,
                                   new_hash |-> h]
            /\ (n \in DOMAIN block_map /\ block_map[n].block_hash = h) =>
                  /\ ret'.outcome = "ok"
                  /\ ret'.value = Some(block_map[n].timestamp)
            /\ n \notin DOMAIN block_map =>
                  /\ ret'.outcome = "ok"
                  /\ ret'.value = None
    ]_vars

\* a check of a buffered block against the other hash has raised
C3_Witness ==
    /\ ret.op = "check_block_reorg"
    /\ ret.outcome = Reorg
    /\ ret.arg[1] \in DOMAIN block_map
    /\ ret.value.original_hash = block_map[ret.arg[1]].block_hash
    /\ ret.value.new_hash = ret.arg[2]

\* C4: every resolution that update_chain() returns has
\* last_live_block >= latest_block_with_good_data, so get_read_range() passes its
\* assertion.
C4_ResolutionOrdered ==
    (ret.op = "update_chain" /\ ret.outcome = "ok") =>
        /\ ret.value.resolution.last_live_block >= ret.value.resolution.latest_block_with_good_data
        /\ get_read_range(ret.value.resolution).outcome = "ok"

\* update_chain() has returned although the node's tip was below last_block_read
C4_Witness ==
    /\ ret.op = "update_chain"
    /\ ret.outcome = "ok"
    /\ ret.arg.last_block_read > 0
    /\ ret.value.passes[1].chain_last_block < ret.arg.last_block_read

\* the precondition of C5, on the fields at the entry of update_chain() and on what
\* the node answered in the first pass: k new blocks after an unchanged window
C5_Pre(k) ==
    LET map == ret.arg.block_map
        L == ret.arg.last_block_read
        f == ret.value.passes[1].fetched
    IN /\ IsGapFree(map)
       /\ L = MaxKey(map)
       /\ \A n \in check_start_at(L)..L : n \in DOMAIN map
       /\ Len(f) = (L - check_start_at(L) + 1) + k
       /\ \A i \in DOMAIN f : f[i].block_number <= L => f[i] = map[f[i].block_number]

\* C5: from a gap-free buffer that ends at L = last_block_read and holds the whole
\* check window, against a node that returns the buffered headers of the window and
\* k >= 0 new blocks, update_chain() returns after one pass the resolution
\* (L + k, L, False), whose read range is (L + 1, L + k).
C5_CleanPass ==
    \A k \in 0..MaxBlock :
        (UpdateEnded /\ C5_Pre(k)) =>
            LET L == ret.arg.last_block_read IN
            /\ ret.outcome = "ok"
            /\ Len(ret.value.passes) = 1
            /\ ret.value.resolution = ChainReorganizationResolution(L + k, L, FALSE)
            /\ get_read_range(ret.value.resolution) = [outcome |-> "ok", value |-> <<L + 1, L + k>>]

\* such an update has run: a window of two blocks and at least one new block
C5_Witness ==
    /\ UpdateEnded
    /\ ret.outcome = "ok"
    /\ ret.arg.last_block_read >= 2
    /\ \E k \in 1..MaxBlock : C5_Pre(k)

\* C6: when every detection pass finds a mismatch at the same block b,
\* update_chain() with max_cycle_tries = k runs exactly k passes and then fails
\* with ReorganisationResolutionFailure, max_purge being min(b - 1, last_block_read
\* at the entry).
C6_BoundedRetries ==
    (/\ UpdateEnded
     /\ ret.outcome # "ok"
     /\ ret.value.passes # <<>>
     /\ AllReorg(ret.value.passes)
     /\ \A i \in DOMAIN ret.value.passes :
           ret.value.passes[i].e.block_number = ret.value.passes[1].e.block_number) =>
        /\ Len(ret.value.passes) = ret.arg.max_cycle_tries
        /\ ret.outcome = "ReorganisationResolutionFailure"
        /\ ret.value.max_purge = min2(ret.value.passes[1].e.block_number - 1, ret.arg.last_block_read)

\* C7: update_chain() ends after at most max_cycle_tries passes; when it returns,
\* the last pass was the first one without ChainReorganizationDetected; it fails
\* with ReorganisationResolutionFailure exactly when each of the max_cycle_tries
\* passes ended in ChainReorganizationDetected.
C7_TerminatesWithinTries ==
    UpdateEnded =>
        LET log == ret.value.passes
            n == Len(log)
        IN /\ n <= ret.arg.max_cycle_tries
           /\ ret.outcome = "ok" =>
                 /\ n >= 1
                 /\ log[n].outcome = "ok"
                 /\ \A i \in 1..(n - 1) : log[i].outcome = Reorg
           /\ ret.outcome = "ReorganisationResolutionFailure" <=>
                 (n = ret.arg.max_cycle_tries /\ AllReorg(log))

\* the headers the node returned in the passes after the first never differ
StableAfterFirstPass(log) ==
    \A i \in 2..Len(log), j \in 2..Len(log) :
        \A x \in DOMAIN log[i].fetched, y \in DOMAIN log[j].fetched :
            log[i].fetched[x].block_number = log[j].fetched[y].block_number =>
                log[i].fetched[x] = log[j].fetched[y]

\* C8: from a non-empty gap-free buffer as load_initial_block_headers() leaves it,
\* when the first pass finds a mismatch at a block b of the check window and the
\* node is stable afterwards, the same update_chain() call (with a retry left)
\* truncates to b - 1, runs a clean second pass and returns a resolution with
\* reorg_detected = True and latest_block_with_good_data = b - 1, the buffer
\* holding the node's headers for b..last_live_block.
C8_RecoveryAfterReorg ==
    (/\ UpdateEnded
     /\ ret.arg.max_cycle_tries >= 2
     /\ has_data(ret.arg.block_map)
     /\ IsGapFree(ret.arg.block_map)
     /\ ret.arg.last_block_read = Max(DOMAIN ret.arg.block_map)
     /\ ret.value.passes # <<>>
     /\ ret.value.passes[1].outcome = Reorg
     /\ ret.value.passes[1].e.block_number \in
            check_start_at(ret.arg.last_block_read)..ret.arg.last_block_read
     /\ StableAfterFirstPass(ret.value.passes)) =>
        LET log == ret.value.passes
            b == log[1].e.block_number
        IN /\ ret.outcome = "ok"
           /\ Len(log) = 2
           /\ ret.value.resolution.reorg_detected
           /\ ret.value.resolution.latest_block_with_good_data = b - 1
           /\ \A n \in b..ret.value.resolution.last_live_block :
                 /\ n \in DOMAIN block_map
                 /\ \E i \in DOMAIN log[2].fetched : log[2].fetched[i] = block_map[n]

\* C9: on a non-empty buffer truncate(g) removes exactly the entries above g, keeps
\* the entries up to g as they are and sets last_block_read to g.
C9_TruncateEffect ==
    [][(ret'.op = "truncate" /\ has_data(block_map)) =>
         /\ block_map' = Without(block_map, {n \in DOMAIN block_map : n > ret'.arg})
         /\ last_block_read' = ret'.arg
    ]_vars

\* C10: when truncate(X) has succeeded and the buffer still holds data, a second
\* truncate(X) succeeds and changes neither the buffer nor last_block_read.
C10_TruncateIdempotent ==
    (/\ pc = "returned"
     /\ ret.op = "truncate"
     /\ ret.outcome = "ok"
     /\ has_data(block_map)) =>
        truncate(block_map, last_block_read, ret.arg) =
            [block_map |-> block_map, last_block_read |-> last_block_read, outcome |-> "ok"]

\* C11: for every reachable monitor, to_pandas() followed by load_pandas() of its
\* table succeeds and gives back the same monitor as seen from outside:
\* last_block_read is what it was and get_block_timestamp(n) answers the same
\* (the timestamp or BlockNotAvailable) for every block number n.
C11_RestoreRoundTrip ==
    [][/\ ret'.op = "to_pandas" => ret'.outcome = "ok"
       /\ ret'.op = "load_pandas" =>
             /\ ret'.outcome = "ok"
             /\ last_block_read' = last_block_read
             /\ \A n \in BlockNumbers :
                   get_block_timestamp(block_map', n) = get_block_timestamp(block_map, n)
    ]_vars

\* C12: add_block(record) fails with "Block already added" whenever the block
\* number is in the buffer, and with "Blocks must be added in order" whenever the
\* block number is not last_block_read + 1, except for the first block added to an
\* empty buffer.
C12_AddBlockErrors ==
    [][ret'.op = "add_block" =>
         LET n == ret'.arg.block_number IN
         /\ n \in DOMAIN block_map => ret'.outcome = "AssertionError: Block already added"
         /\ (n \notin DOMAIN block_map /\ has_data(block_map) /\ n # last_block_read + 1) =>
               ret'.outcome = "AssertionError: Blocks must be added in order"
    ]_vars

\* the buffer is gap-free and last_block_read is its largest block number (0 when
\* it is empty)
Consistent(map, lbr) == IsGapFree(map) /\ lbr = MaxKey(map)

\* C13: when add_block(), load_initial_block_headers() or update_chain() is called
\* on a consistent monitor and fails, the monitor is consistent afterwards: the
\* buffer is gap-free, last_block_read is its largest block number, and a rejected
\* add_block() has left no header behind.
C13_FailureLeavesConsistent ==
    [][(/\ ret'.op \in {"add_block", "load_initial_block_headers", "update_chain"}
        /\ ret'.outcome \notin {"ok", "running"}
        /\ IF ret'.op = "update_chain"
           THEN Consistent(ret'.arg.block_map, ret'.arg.last_block_read)
           ELSE Consistent(block_map, last_block_read)) =>
          /\ Consistent(block_map', last_block_read')
          /\ ret'.op = "add_block" => block_map' = block_map
    ]_vars

\* C19: when the buffer holds data (gap-free, last_block_read its largest block
\* number L), load_initial_block_headers(block_count | start_block) ignores its
\* argument, fetches from L + 1 up to the node's tip, returns (L + 1, tip) and
\* appends what it fetched: the old entries stay, the new block numbers are
\* L + 1, L + 2, ... up to at most the tip, and last_block_read is again the
\* largest block number of a gap-free buffer.
C19_LoadResumes ==
    [][(/\ ret'.op = "load_initial_block_headers"
        /\ ~(ret'.arg[1] # None /\ ret'.arg[2] # None)
        /\ has_data(block_map)
        /\ Consistent(block_map, last_block_read)) =>
          LET L == Max(DOMAIN block_map) IN
          /\ ret'.outcome = "ok"
          /\ ret'.value[1] = L + 1
          /\ ret'.value[2] \in get_last_block_live
          /\ \A n \in DOMAIN block_map : n \in DOMAIN block_map' /\ block_map'[n] = block_map[n]
          /\ DOMAIN block_map' \ DOMAIN block_map = (L + 1)..last_block_read'
          /\ last_block_read' <= max2(ret'.value[2], L)
          /\ Consistent(block_map', last_block_read')
    ]_vars

\* a load that was asked to start at block 1 has started at block 2 or later, after
\* the buffered blocks, and has appended at least its first block
C19_Witness ==
    /\ ret.op = "load_initial_block_headers"
    /\ ret.outcome = "ok"
    /\ ret.arg = <<None, Some(1)>>
    /\ ret.value[1] >= 2
    /\ ret.value[1] - 1 \in DOMAIN block_map
    /\ ret.value[1] \in DOMAIN block_map
    /\ Consistent(block_map, last_block_read)

\* the scan has a monitor and its next log is one for which the monitor signals a
\* reorganisation
ReorgAtNextLog ==
    /\ scan.pc = "extract_events"
    /\ scan.args.reorg_mon
    /\ scan.i <= Len(scan.logs)
    /\ check_block_reorg(block_map, scan.logs[scan.i].blockNumber,
                         scan.logs[scan.i].blockHash).outcome = Reorg

\* C14: when a scan with a monitor comes to a log for which check_block_reorg()
\* raises ChainReorganizationDetected, and the log is the j-th of its chunk, the
\* scan has yielded all the logs of the earlier chunks and the first j - 1 records
\* of this chunk (each with the monitor's timestamp), the exception reaches the
\* consumer, and nothing more is yielded: the generator has ended.
C14_ScanAbortsOnReorg ==
    [][/\ ReorgAtNextLog =>
             LET j == scan.i
                 log == scan.logs[j]
             IN /\ scan'.pc = "ended"
                /\ scan'.outcome = Reorg
                /\ scan'.e = [block_number |-> log.blockNumber,
                              original_hash |-> block_map[log.blockNumber].block_hash,
                              new_hash |-> log.blockHash]
                /\ scan'.yielded = scan.yielded
                /\ scan'.total_events = scan.total_events
                /\ scan.total_events = scan.returned_before + (j - 1)
                /\ Len(scan.yielded) = j - 1
                /\ \A k \in 1..(j - 1) :
                      scan.yielded[k] =
                          LogResult(scan.logs[k], ScanFilter.topics[scan.logs[k].topics[1]],
                                    scan.block_num,
                                    Some(block_map[scan.logs[k].blockNumber].timestamp))
       /\ scan.pc = "ended" => scan'.pc = "off"
    ]_vars

\* a scan has been aborted at the third log of its chunk, after an earlier chunk
\* that had logs
C14_Witness ==
    /\ scan.pc = "ended"
    /\ scan.outcome = Reorg
    /\ scan.i = 3
    /\ Len(scan.logs) = 3
    /\ scan.returned_before >= 1
    /\ scan.total_events = scan.returned_before + 2

\* apply() is about to take its first chunk, and the block range is not empty
FirstChunk ==
    /\ scan.pc = "apply"
    /\ scan.requests = <<>>
    /\ scan.block_num = scan.args.start_block
    /\ scan.args.start_block <= scan.args.end_block

ConfigurationError == "AssertionError: You cannot pass both reorg_mon and extract_timestamps"

\* C15 as stated: a scan over a non-empty range is accepted only with exactly one
\* of reorg_mon and extract_timestamps; with both, or with neither, it fails with
\* a configuration error before any request and any record.
C15_ExactlyOneTimestampSource ==
    [][FirstChunk =>
         IF scan.args.reorg_mon # (scan.args.extract_timestamps # None)
         THEN scan'.outcome # ConfigurationError
         ELSE /\ scan'.pc = "ended"
              /\ scan'.outcome = ConfigurationError
              /\ scan'.requests = <<>>
              /\ scan'.total_events = 0
    ]_vars

\* C15 amended: a scan over a non-empty range with both reorg_mon and
\* extract_timestamps fails with the configuration error before any request and
\* any record; with one of them, or with neither, it is accepted, and with neither
\* every record is yielded with timestamp None.
C15_NotBothTimestampSources ==
    [][/\ FirstChunk =>
             IF scan.args.reorg_mon /\ scan.args.extract_timestamps # None
             THEN /\ scan'.pc = "ended"
                  /\ scan'.outcome = ConfigurationError
                  /\ scan'.requests = <<>>
                  /\ scan'.total_events = 0
             ELSE /\ scan'.outcome # ConfigurationError
                  /\ scan'.requests = << <<scan.args.start_block,
                                           last_of_chunk(scan.args.end_block, scan.args.start_block,
                                                         scan.args.chunk_size)>> >>
       /\ (scan'.pc # "off" /\ ~scan'.args.reorg_mon /\ scan'.args.extract_timestamps = None) =>
             \A k \in DOMAIN scan'.yielded : scan'.yielded[k].timestamp = None
    ]_vars

\* a scan with neither a monitor nor a resolver has run to its end and has
\* yielded records
C15_Witness ==
    /\ scan.pc = "ended"
    /\ scan.outcome = "ok"
    /\ ~scan.args.reorg_mon
    /\ scan.args.extract_timestamps = None
    /\ scan.total_events >= 2

\* the requests of a complete scan of start_block..end_block in chunks of chunk_size
ChunkRanges(start_block, end_block, chunk_size) ==
    [k \in 1..((end_block - start_block) \div chunk_size + 1) |->
        <<start_block + (k - 1) * chunk_size,
          min2(end_block, start_block + k * chunk_size - 1)>>]

\* C16: for start_block <= end_block and chunk_size >= 1 a scan that runs to its
\* end has issued exactly the requests [n, min(end_block, n + chunk_size - 1)] for
\* n = start_block, start_block + chunk_size, ...: in increasing order, disjoint,
\* each of at most chunk_size blocks, covering start_block..end_block.
C16_ChunkRequests ==
    (scan.pc = "ended" /\ scan.outcome = "ok" /\ scan.args.start_block <= scan.args.end_block) =>
        LET a == scan.args
            r == scan.requests
        IN /\ r = ChunkRanges(a.start_block, a.end_block, a.chunk_size)
           /\ r[1][1] = a.start_block
           /\ r[Len(r)][2] = a.end_block
           /\ \A k \in DOMAIN r : r[k][1] <= r[k][2] /\ r[k][2] - r[k][1] + 1 <= a.chunk_size
           /\ \A k \in 1..(Len(r) - 1) : r[k + 1][1] = r[k][2] + 1

\* a complete scan of several chunks, the last one shorter than chunk_size
C16_Witness ==
    /\ scan.pc = "ended"
    /\ scan.outcome = "ok"
    /\ Len(scan.requests) >= 2
    /\ scan.args.chunk_size >= 2
    /\ LET last == scan.requests[Len(scan.requests)] IN last[2] - last[1] + 1 < scan.args.chunk_size

\* C17: in a scan without monitor and with a resolver, a log whose block hash is
\* not in the table the resolver returned for the chunk makes the scan fail with
\* TimestampNotFound and is not yielded; every record yielded carries the
\* table's timestamp for its block hash.
C17_ResolverMissFails ==
    [][(/\ scan.pc = "extract_events"
        /\ ~scan.args.reorg_mon
        /\ scan.args.extract_timestamps # None
        /\ scan.i <= Len(scan.logs)) =>
          LET log == scan.logs[scan.i]
              key == BlockHash(log.blockNumber, log.blockHash)
          IN IF key \in DOMAIN scan.timestamps[1]
             THEN /\ scan'.yielded = Append(scan.yielded, scan'.yielded[scan.i])
                  /\ scan'.yielded[scan.i].blockHash = log.blockHash
                  /\ scan'.yielded[scan.i].timestamp = Some(scan.timestamps[1][key])
             ELSE /\ scan'.pc = "ended"
                  /\ scan'.outcome = "TimestampNotFound"
                  /\ scan'.yielded = scan.yielded
    ]_vars

\* two different descriptors of the list have a topic hash in common
TopicCollision(events) ==
    \E i \in DOMAIN events, j \in DOMAIN events :
        /\ events[i] # events[j]
        /\ \E x \in DOMAIN build_filter_topics(events[i]), y \in DOMAIN build_filter_topics(events[j]) :
              build_filter_topics(events[i])[x] = build_filter_topics(events[j])[y]

\* C18: prepare_filter(events) fails when two different descriptors of the list
\* give the same topic hash; when it succeeds, the keys of filter.topics are the
\* topic hashes of all the descriptors, each mapped to the descriptor that gave it.
C18_FilterRejectsCollisions ==
    ret.op = "prepare_filter" =>
        LET events == ret.arg IN
        IF TopicCollision(events)
        THEN ret.outcome # "ok"
        ELSE /\ ret.outcome = "ok"
             /\ DOMAIN ret.value[1].topics =
                    UNION { { build_filter_topics(events[i])[x] : x \in DOMAIN build_filter_topics(events[i]) }
                            : i \in DOMAIN events }
             /\ \A t \in DOMAIN ret.value[1].topics :
                   \E i \in DOMAIN events :
                      /\ ret.value[1].topics[t] = events[i]
                      /\ \E x \in DOMAIN build_filter_topics(events[i]) :
                            build_filter_topics(events[i])[x] = t

\* C20: an update_chain() that is interrupted leaves the buffer consistent:
\* truncate(latest_good_block) is atomic for the interruption, that is, when the
\* interruption arrives inside truncate() either nothing has been deleted yet, or
\* all the entries above latest_good_block are gone and last_block_read is
\* latest_good_block.
C20_CancelLeavesConsistent ==
    (ret.op = "update_chain" /\ ret.outcome = "KeyboardInterrupt" /\ truncating # None) =>
        LET g == truncating[1].latest_good_block IN
        \/ truncating[1].block_to_delete = g + 1
        \/ /\ {n \in DOMAIN block_map : n > g} = {}
           /\ last_block_read = g

\* the blocks at which the detection passes of the log signalled
\* ChainReorganizationDetected
SignalledBlocks(log) == {log[i].e.block_number : i \in {j \in DOMAIN log : log[j].outcome = Reorg}}

C22_PassAppendsNewHeaders ==
    (/\ UpdateEnded
     /\ has_data(ret.arg.block_map)
     /\ Consistent(ret.arg.block_map, ret.arg.last_block_read)
     /\ ret.value.passes # <<>>) =>
        LET p == ret.value.passes[1] IN
        /\ p.outcome \in {"ok", Reorg}
        /\ p.outcome = "ok" =>
              \A i \in DOMAIN p.fetched :
                 /\ p.fetched[i].block_number \in DOMAIN block_map
                 /\ block_map[p.fetched[i].block_number] = p.fetched[i]

\* C23: figure_reorganisation_and_new_blocks(max_range) fails with TooLongRange
\* exactly when max_range is not None and chain_last_block -
\* max(last_block_read - check_depth, 1) > max_range; the failure comes before any
\* header is fetched and leaves block_map and last_block_read as they were; with
\* max_range = None the pass never fails this way.
C23_RangeTooLarge ==
    ret.op = "figure_reorganisation_and_new_blocks" =>
        LET a == ret.arg
            too_long == /\ a.max_range # None
                        /\ a.chain_last_block - max2(a.last_block_read - check_depth, 1)
                              > a.max_range[1]
        IN /\ (ret.outcome = "TooLongRange") <=> too_long
           /\ too_long => /\ ret.value.fetched = <<>>
                          /\ block_map = a.block_map
                          /\ last_block_read = a.last_block_read
           /\ a.max_range = None => ret.outcome # "TooLongRange"

\* C24: the last_live_block of the resolution update_chain() returns is the chain
\* tip the node reported in the final detection pass, whatever the node does (a
\* fetch that ends early and a tip below last_block_read included).
C24_LastLiveBlockIsTip ==
    (UpdateEnded /\ ret.outcome = "ok") =>
        LET log == ret.value.passes IN
        ret.value.resolution.last_live_block = log[Len(log)].chain_last_block

\* C25: after skip_to_block(N) on a monitor with an empty buffer (block_map empty,
\* last_block_read = N), the next update_chain() against a node whose tip is above
\* N and that answers every request succeeds, leaves in the buffer exactly the
\* blocks N + 1 .. tip, and returns latest_block_with_good_data = N.
C25_SkipToBlockStartsAtN ==
    (/\ UpdateEnded
     /\ ~has_data(ret.arg.block_map)
     /\ ret.value.passes # <<>>
     /\ ret.value.passes[1].chain_last_block > ret.arg.last_block_read
     /\ ret.value.passes[1].outcome # "ok" \/
           Len(ret.value.passes[1].fetched) =
              ret.value.passes[1].chain_last_block - check_start_at(ret.arg.last_block_read) + 1) =>
        LET N == ret.arg.last_block_read
            tip == ret.value.passes[1].chain_last_block
        IN /\ ret.outcome = "ok"
           /\ DOMAIN block_map = (N + 1)..tip
           /\ ret.value.resolution.latest_block_with_good_data = N

\* C26: within one update_chain() cycle each ChainReorganizationDetected strictly
\* lowers last_block_read: the signalled block is a buffered block <=
\* last_block_read at the start of that pass, no header was appended in that pass
\* before the mismatch, the truncation sets last_block_read to the signalled block
\* - 1, and the signalled block is below those of the earlier passes of the cycle.
C26_ReorgLowersLastBlockRead ==
    [][(pc = "update" /\ tries_left > 0) =>
          LET log == IF pc' = "update" THEN passes' ELSE ret'.value.passes
              p == log[Len(log)]
          IN p.outcome = Reorg =>
                /\ p.e.block_number \in DOMAIN block_map
                /\ p.e.block_number <= last_block_read
                /\ \A i \in 1..(Len(p.fetched) - 1) :
                      p.fetched[i].block_number \in DOMAIN block_map
                /\ last_block_read' = p.e.block_number - 1
                /\ last_block_read' < last_block_read
                /\ \A b \in SignalledBlocks(passes) : p.e.block_number < b
    ]_vars

\* C27: across two successive update_chain() calls that return, with nothing but
\* update_chain() calls in between, the read ranges leave no block unread: the
\* start of the later get_read_range() is <= the last_live_block + 1 of the
\* resolution returned before, with
\* equality exactly when the later cycle reports reorg_detected = false; a cycle
\* with no new block and no reorg returns the empty range
\* (last_block_read + 1, last_block_read).
C27_ReadRangesLeaveNoGap ==
    (UpdateEnded /\ ret.outcome = "ok" /\ "previous" \in DOMAIN ret.arg) =>
        LET res == ret.value.resolution
            r == get_read_range(res)
            prev == ret.arg.previous
        IN /\ r.outcome = "ok"
           /\ r.value[1] <= prev.last_live_block + 1
           /\ (r.value[1] = prev.last_live_block + 1) <=> ~res.reorg_detected
           /\ (block_map = ret.arg.block_map /\ ~res.reorg_detected) =>
                 r.value = <<last_block_read + 1, last_block_read>>

\* C28: the header recorded in the buffer for a block number never changes while
\* the entry stays in the buffer: a step of add_block(),
\* load_initial_block_headers() or update_chain() leaves every entry it keeps as it
\* was, and add_block() and load_initial_block_headers() remove no entry (only the
\* truncation inside update_chain() does), so a different header for block n can
\* be stored only after the entry for n was removed.
C28_BufferedHeaderStable ==
    [][(\/ pc = "update"
        \/ ret'.op \in {"add_block", "load_initial_block_headers"}) =>
          /\ \A n \in DOMAIN block_map \cap DOMAIN block_map' : block_map'[n] = block_map[n]
          /\ pc # "update" => DOMAIN block_map \subseteq DOMAIN block_map'
    ]_vars

\* add_block() was called with another hash for a buffered block number and was
\* rejected; the buffer still holds the hash recorded first
C28_Witness ==
    /\ ret.op = "add_block"
    /\ ret.outcome = "AssertionError: Block already added"
    /\ ret.arg.block_number \in DOMAIN block_map
    /\ block_map[ret.arg.block_number].block_hash # ret.arg.block_hash

\* C29: in a scan with a monitor, every record yielded refers to a block that is in
\* the monitor's buffer with the hash of the log's blockHash, and carries the
\* timestamp of that buffered header; a log whose block number is not in the
\* buffer ends the scan with an error and is not yielded (never with timestamp
\* None).
C29_YieldedFromBuffer ==
    [][(/\ scan.pc = "extract_events"
        /\ scan.args.reorg_mon
        /\ scan.i <= Len(scan.logs)) =>
          LET log == scan.logs[scan.i]
              n == log.blockNumber
          IN /\ scan'.yielded # scan.yielded =>
                   /\ scan'.yielded = Append(scan.yielded, scan'.yielded[scan.i])
                   /\ scan'.yielded[scan.i].blockNumber = n
                   /\ scan'.yielded[scan.i].blockHash = log.blockHash
                   /\ n \in DOMAIN block_map
                   /\ block_map[n].block_hash = log.blockHash
                   /\ scan'.yielded[scan.i].timestamp = Some(block_map[n].timestamp)
             /\ n \notin DOMAIN block_map =>
                   /\ scan'.pc = "ended"
                   /\ scan'.outcome \notin {"ok", "running"}
                   /\ scan'.yielded = scan.yielded
                   /\ scan'.total_events = scan.total_events
    ]_vars

\* a scan with a monitor has yielded a record of a buffered block and then ended
\* with an error at a log of a block the buffer does not hold
C29_Witness ==
    /\ scan.pc = "ended"
    /\ scan.args.reorg_mon
    /\ scan.outcome = "AssertionError: Timestamp missing"
    /\ scan.i >= 2
    /\ scan.logs[scan.i].blockNumber \notin DOMAIN block_map
    /\ scan.yielded[1].timestamp = Some(block_map[scan.yielded[1].blockNumber].timestamp)

\* C30: a scan issues its eth_getLogs requests lazily and in order: a request is
\* issued only by apply() between two chunks, when every log of the chunks
\* requested before has been yielded to the consumer, and it starts right after the
\* range of the request before it; once the generator has ended
\* (ChainReorganizationDetected or any other failure, or exhaustion) it issues no
\* further request and yields no further record.
C30_LazyOrderedRequests ==
    [][/\ (scan.pc \notin {"off", "ended"} /\ scan'.pc # "off") =>
            /\ scan'.requests # scan.requests =>
                  /\ scan.pc = "apply"
                  /\ Len(scan'.requests) = Len(scan.requests) + 1
                  /\ SubSeq(scan'.requests, 1, Len(scan.requests)) = scan.requests
                  /\ scan'.requests[Len(scan'.requests)][1] = scan.block_num
                  /\ scan.requests # <<>> =>
                        scan.block_num = scan.requests[Len(scan.requests)][2] + 1
                  /\ scan.total_events = scan.returned_before
                  /\ scan'.total_events = scan.total_events
            /\ scan'.total_events # scan.total_events =>
                  /\ scan.pc = "extract_events"
                  /\ scan'.requests = scan.requests
            /\ scan'.outcome # "running" => scan'.pc = "ended"
       /\ scan.pc = "ended" => scan' = NoScan
    ]_vars

\* a scan has failed with ChainReorganizationDetected in its second chunk, after a
\* first chunk whose records were all yielded
C30_Witness ==
    /\ scan.pc = "ended"
    /\ scan.outcome = Reorg
    /\ Len(scan.requests) = 2
    /\ scan.returned_before >= 1
    /\ scan.total_events >= scan.returned_before

=============================================================================
